---- MODULE Spec2Model ----
(***************************************************************************)
(* Cart engine of the storefront App component                             *)
(* (src/src/advanced/atoms/couponsAtoms.ts): cart, coupon registry,        *)
(* selected coupon, the pricing functions and the event handlers.          *)
(*                                                                         *)
(* Numbers.  Discount rates are floating-point fractions in the source;    *)
(* here a rate is an integer number of hundredths (0.05 is 5, 0.5 is 50)   *)
(* and every product of a price with (1 - rate) is kept as an exact        *)
(* fraction over 100 until Math.round is applied.                          *)
(*                                                                         *)
(* Events.  Under Spec each handler runs to completion on the state        *)
(* rendered before it, its effects included, so the cart a handler closes  *)
(* over is the cart its setCart updater receives as prevCart.  SpecBatched *)
(* adds addToCart calls made twice through the callback of one render,     *)
(* where the closure's cart is older than prevCart.                        *)
(***************************************************************************)
EXTENDS Integers, Sequences, FiniteSets, TLC

VARIABLES cart, coupons, selectedCoupon, notifications, lastCall, localStorage

vars == <<cart, coupons, selectedCoupon, notifications, lastCall, localStorage>>

(***************************************************************************)
(* Bounds of the model                                                     *)
(***************************************************************************)
\* largest newQuantity handed to updateQuantity
MaxNewQuantity == 3
\* longest coupon registry addCoupon is exercised on
MaxCoupons == 3
\* number of distinct Date.now() readings completeOrder may see
MaxClock == 1

(***************************************************************************)
(* Data                                                                    *)
(***************************************************************************)
\* selectedCoupon === null
null == [name |-> "null", code |-> "", discountType |-> "none", discountValue |-> 0]

initialCoupons ==
  << [name |-> "5000 off", code |-> "AMOUNT5000", discountType |-> "amount", discountValue |-> 5000],
     [name |-> "10% off", code |-> "PERCENT10", discountType |-> "percentage", discountValue |-> 10] >>

\* the catalog returned by useProducts; it stays fixed
products ==
  << [id |-> "p1", price |-> 10000, stock |-> 10,
      discounts |-> << [quantity |-> 2, rate |-> 10], [quantity |-> 5, rate |-> 60] >>],
     [id |-> "p2", price |-> 1003, stock |-> 2,
      discounts |-> << [quantity |-> 2, rate |-> 10] >>],
     [id |-> "p3", price |-> 3000, stock |-> 1,
      discounts |-> << >>] >>

\* product ids a handler can be called with; "p9" is not in the catalog
ProductIds == {"p1", "p2", "p3", "p9"}

\* coupons the admin form submits: a new code that differs from a default code
\* in letter case only, and a code of the default registry
CouponForms ==
  { [name |-> "20% off", code |-> "percent10", discountType |-> "percentage", discountValue |-> 20],
    [name |-> "5000 off", code |-> "AMOUNT5000", discountType |-> "amount", discountValue |-> 5000] }

CouponCodes == {"AMOUNT5000", "PERCENT10", "percent10"}

\* Math.round of the fraction num / den (den > 0): halves go up
MathRound(num, den) == (2 * num + den) \div (2 * den)

Max(a, b) == IF a >= b THEN a ELSE b
Min(a, b) == IF a <= b THEN a ELSE b

\* addNotification appends one { message, type } to what the handler has notified
addNotification(prev, message, arg, type) ==
  Append(prev, [message |-> message, arg |-> arg, type |-> type])

(***************************************************************************)
(* Pricing                                                                 *)
(***************************************************************************)
RECURSIVE baseDiscountFrom(_, _, _)
baseDiscountFrom(discounts, quantity, maxDiscount) ==
  IF discounts = << >> THEN maxDiscount
  ELSE LET discount == Head(discounts) IN
       baseDiscountFrom(Tail(discounts), quantity,
         IF quantity >= discount.quantity /\ discount.rate > maxDiscount
         THEN discount.rate ELSE maxDiscount)

hasBulkPurchase(c) == \E i \in 1..Len(c) : c[i].quantity >= 10

\* variant: the bulk bonus looks at the item's own quantity only
getMaxApplicableDiscount_OwnQuantity(item, c) ==
  LET baseDiscount == baseDiscountFrom(item.product.discounts, item.quantity, 0) IN
  IF item.quantity >= 10 THEN Min(baseDiscount + 5, 50) ELSE baseDiscount

getMaxApplicableDiscount(item, c) ==
  LET baseDiscount == baseDiscountFrom(item.product.discounts, item.quantity, 0) IN
  IF hasBulkPurchase(c) THEN Min(baseDiscount + 5, 50) ELSE baseDiscount

calculateItemTotal(item, c) ==
  MathRound(item.product.price * item.quantity * (100 - getMaxApplicableDiscount(item, c)), 100)

RECURSIVE sumBefore(_, _)
sumBefore(c, i) ==
  IF i > Len(c) THEN 0 ELSE c[i].product.price * c[i].quantity + sumBefore(c, i + 1)

RECURSIVE sumAfter(_, _)
sumAfter(c, i) ==
  IF i > Len(c) THEN 0 ELSE calculateItemTotal(c[i], c) + sumAfter(c, i + 1)

\* variant: the amount coupon is subtracted without the floor at 0
calculateCartTotal_NoFloor(c, coupon) ==
  LET totalBeforeDiscount == sumBefore(c, 1)
      itemsTotal == sumAfter(c, 1)
      totalAfterDiscount ==
        IF coupon # null
        THEN IF coupon.discountType = "amount"
             THEN itemsTotal - coupon.discountValue
             ELSE MathRound(itemsTotal * (100 - coupon.discountValue), 100)
        ELSE itemsTotal
  IN [totalBeforeDiscount |-> totalBeforeDiscount, totalAfterDiscount |-> totalAfterDiscount]

calculateCartTotal(c, coupon) ==
  LET totalBeforeDiscount == sumBefore(c, 1)
      itemsTotal == sumAfter(c, 1)
      totalAfterDiscount ==
        IF coupon # null
        THEN IF coupon.discountType = "amount"
             THEN Max(0, itemsTotal - coupon.discountValue)
             ELSE MathRound(itemsTotal * (100 - coupon.discountValue), 100)
        ELSE itemsTotal
  IN [totalBeforeDiscount |-> totalBeforeDiscount, totalAfterDiscount |-> totalAfterDiscount]

\* quantity of the cart item found for the product id, 0 when there is none
cartQuantity(c, id) ==
  IF \E i \in 1..Len(c) : c[i].product.id = id
  THEN c[CHOOSE i \in 1..Len(c) :
           /\ c[i].product.id = id
           /\ \A j \in 1..(i - 1) : c[j].product.id # id].quantity
  ELSE 0

\* variant: the stock of the product, whatever the cart holds
getRemainingStock_IgnoresCart(product, c) == product.stock

getRemainingStock(product, c) == product.stock - cartQuantity(c, product.id)

(***************************************************************************)
(* Persistence                                                             *)
(*                                                                         *)
(* A JSON text is kept as the structure it denotes: an array is the        *)
(* sequence of its elements, an object the sequence of its <<key, value>>  *)
(* pairs in property order, a number or a string itself.                   *)
(***************************************************************************)
\* localStorage.getItem of a key that is not set
noItem == [present |-> FALSE, text |-> << >>]

storedItem(text) == [present |-> TRUE, text |-> text]

\* the value of the property key of a JSON object
property(object, key) ==
  object[CHOOSE i \in 1..Len(object) : object[i][1] = key][2]

\* JSON.stringify(cart)
stringifyCart(c) ==
  [i \in 1..Len(c) |->
     << <<"product",
          << <<"id", c[i].product.id>>,
             <<"price", c[i].product.price>>,
             <<"stock", c[i].product.stock>>,
             <<"discounts",
               [k \in 1..Len(c[i].product.discounts) |->
                  << <<"quantity", c[i].product.discounts[k].quantity>>,
                     <<"rate", c[i].product.discounts[k].rate>> >>]>> >> >>,
        <<"quantity", c[i].quantity>> >>]

\* JSON.parse of a stored cart
parseCart(text) ==
  [i \in 1..Len(text) |->
     LET p == property(text[i], "product") IN
     [product |->
        [id |-> property(p, "id"),
         price |-> property(p, "price"),
         stock |-> property(p, "stock"),
         discounts |->
           [k \in 1..Len(property(p, "discounts")) |->
              [quantity |-> property(property(p, "discounts")[k], "quantity"),
               rate |-> property(property(p, "discounts")[k], "rate")]]],
      quantity |-> property(text[i], "quantity")]]

\* JSON.stringify(coupons)
stringifyCoupons(cs) ==
  [i \in 1..Len(cs) |->
     << <<"name", cs[i].name>>, <<"code", cs[i].code>>,
        <<"discountType", cs[i].discountType>>,
        <<"discountValue", cs[i].discountValue>> >>]

\* JSON.parse of a stored coupon registry
parseCoupons(text) ==
  [i \in 1..Len(text) |->
     [name |-> property(text[i], "name"), code |-> property(text[i], "code"),
      discountType |-> property(text[i], "discountType"),
      discountValue |-> property(text[i], "discountValue")]]

\* the initial cart state: the stored cart when there is one
initialCart(storage) ==
  IF storage.cart.present THEN parseCart(storage.cart.text) ELSE << >>

\* the initial coupon registry: the stored one when there is one
initialCouponsState(storage) ==
  IF storage.coupons.present THEN parseCoupons(storage.coupons.text) ELSE initialCoupons

\* variant: an empty cart leaves the stored cart in place
cartEffect_NeverRemoves(storage, c) ==
  IF Len(c) > 0
  THEN [storage EXCEPT !.cart = storedItem(stringifyCart(c))]
  ELSE storage

\* the effect on [cart]: setItem for a cart with items, removeItem otherwise
cartEffect(storage, c) ==
  IF Len(c) > 0
  THEN [storage EXCEPT !.cart = storedItem(stringifyCart(c))]
  ELSE [storage EXCEPT !.cart = noItem]

\* the effect on [coupons]
couponsEffect(storage, cs) ==
  [storage EXCEPT !.coupons = storedItem(stringifyCoupons(cs))]

\* both effects as they run after the first render
mountEffects(storage, c, cs) == cartEffect(couponsEffect(storage, cs), c)

\* the effects after the render that follows a handler: each runs when its
\* dependency has changed
useEffects ==
  localStorage' =
    LET afterCoupons == IF coupons' # coupons
                        THEN couponsEffect(localStorage, coupons') ELSE localStorage
    IN IF cart' # cart THEN cartEffect(afterCoupons, cart') ELSE afterCoupons

(***************************************************************************)
(* Initial state                                                           *)
(***************************************************************************)
\* the handler call made last: its name and arguments; for applyCoupon,
\* completeOrder and deleteCoupon the coupon selected when it was made; for completeOrder,
\* removeFromCart and updateQuantity the number of cart items it found;
\* whether it repeats the call made just before; for addToCart the cart of
\* the render its callback was created in
NoCall == [op |-> "none", id |-> "", quantity |-> 0, coupon |-> null,
           selectedBefore |-> null, itemsBefore |-> 0, repeated |-> FALSE,
           closureCart |-> << >>]

Init ==
  /\ cart = << >>
  /\ coupons = initialCoupons
  /\ selectedCoupon = null
  /\ notifications = << >>
  /\ lastCall = NoCall
  /\ localStorage = mountEffects([cart |-> noItem, coupons |-> noItem], << >>, initialCoupons)

(***************************************************************************)
(* Handlers                                                                *)
(***************************************************************************)
\* variant: appends a new item even when the product is in the cart
addToCartUpdater_AlwaysAppends(prevCart, product) ==
  [cart |-> Append(prevCart, [product |-> product, quantity |-> 1]), notified |-> << >>]

\* the updater addToCart hands to setCart, with what it notifies
addToCartUpdater(prevCart, product) ==
  IF \E i \in 1..Len(prevCart) : prevCart[i].product.id = product.id
  THEN LET newQuantity == cartQuantity(prevCart, product.id) + 1 IN
       IF newQuantity > product.stock
       THEN [cart |-> prevCart,
             notified |-> addNotification(<< >>, "stockCeiling", product.stock, "error")]
       ELSE [cart |-> [i \in 1..Len(prevCart) |->
                        IF prevCart[i].product.id = product.id
                        THEN [prevCart[i] EXCEPT !.quantity = newQuantity]
                        ELSE prevCart[i]],
             notified |-> << >>]
  ELSE [cart |-> Append(prevCart, [product |-> product, quantity |-> 1]),
        notified |-> << >>]

\* what addToCart does to the cart and what it notifies: closureCart is the
\* cart of the render the callback closes over, prevCart the cart setCart
\* hands to the updater
addToCartResult(closureCart, prevCart, product) ==
  IF getRemainingStock(product, closureCart) <= 0
  THEN [cart |-> prevCart, notified |-> addNotification(<< >>, "outOfStock", 0, "error")]
  ELSE LET r == addToCartUpdater(prevCart, product) IN
       [cart |-> r.cart, notified |-> addNotification(r.notified, "addedToCart", 0, "success")]

\* addToCart called on the current render: the closure holds the current cart
addToCart(product) ==
  /\ lastCall' = [NoCall EXCEPT !.op = "addToCart", !.id = product.id, !.closureCart = cart]
  /\ LET r == addToCartResult(cart, cart, product) IN
     /\ cart' = r.cart
     /\ notifications' = r.notified
  /\ UNCHANGED <<coupons, selectedCoupon>>
  /\ useEffects

\* addToCart called again through the callback of the render the previous
\* addToCart call was made in (two calls in one batch): the closure still holds
\* the cart of that render, the updater receives the pending cart; batches
\* of two calls are modelled
addToCartSameRender(product) ==
  /\ lastCall.op = "addToCart"
  /\ ~ lastCall.repeated
  /\ lastCall' = [NoCall EXCEPT !.op = "addToCart", !.id = product.id,
                                 !.closureCart = lastCall.closureCart,
                                 !.repeated = TRUE]
  /\ LET r == addToCartResult(lastCall.closureCart, cart, product) IN
     /\ cart' = r.cart
     /\ notifications' = r.notified
  /\ UNCHANGED <<coupons, selectedCoupon>>
  /\ useEffects

removeFromCartUpdater(prevCart, productId) ==
  LET Keep(item) == item.product.id # productId IN SelectSeq(prevCart, Keep)

\* variant: a percentage coupon is dropped when the remaining cart is below
\* the threshold of applyCoupon
removeFromCart_DropsIneligibleCoupon(productId) ==
  /\ lastCall' = [NoCall EXCEPT !.op = "removeFromCart", !.id = productId,
                                 !.itemsBefore = Len(cart)]
  /\ cart' = removeFromCartUpdater(cart, productId)
  /\ notifications' = << >>
  /\ selectedCoupon' =
       IF /\ selectedCoupon.discountType = "percentage"
          /\ calculateCartTotal(cart', null).totalAfterDiscount < 10000
       THEN null ELSE selectedCoupon
  /\ UNCHANGED coupons
  /\ useEffects

removeFromCart(productId) ==
  /\ lastCall' = [NoCall EXCEPT !.op = "removeFromCart", !.id = productId,
                                 !.itemsBefore = Len(cart)]
  /\ cart' = removeFromCartUpdater(cart, productId)
  /\ notifications' = << >>
  /\ UNCHANGED <<coupons, selectedCoupon>>
  /\ useEffects

\* variant: the updated item moves to the end of the cart
updateQuantityUpdater_MovesToEnd(prevCart, productId, newQuantity) ==
  LET Other(item) == item.product.id # productId
      Same(item) == item.product.id = productId
      moved == SelectSeq(prevCart, Same)
  IN SelectSeq(prevCart, Other)
       \o [i \in 1..Len(moved) |-> [moved[i] EXCEPT !.quantity = newQuantity]]

updateQuantityUpdater(prevCart, productId, newQuantity) ==
  [i \in 1..Len(prevCart) |->
     IF prevCart[i].product.id = productId
     THEN [prevCart[i] EXCEPT !.quantity = newQuantity]
     ELSE prevCart[i]]

\* variant: no comparison of newQuantity with the stock
updateQuantityResult_NoStockCheck(c, productId, newQuantity) ==
  IF newQuantity <= 0
  THEN [cart |-> removeFromCartUpdater(c, productId), notified |-> << >>]
  ELSE IF ~ \E i \in 1..Len(products) : products[i].id = productId
  THEN [cart |-> c, notified |-> << >>]
  ELSE [cart |-> updateQuantityUpdater(c, productId, newQuantity), notified |-> << >>]

\* variant: only a negative newQuantity removes the item
updateQuantityResult_ZeroIsSet(c, productId, newQuantity) ==
  IF newQuantity < 0
  THEN [cart |-> removeFromCartUpdater(c, productId), notified |-> << >>]
  ELSE IF ~ \E i \in 1..Len(products) : products[i].id = productId
  THEN [cart |-> c, notified |-> << >>]
  ELSE LET product == products[CHOOSE i \in 1..Len(products) : products[i].id = productId]
           maxStock == product.stock
       IN IF newQuantity > maxStock
          THEN [cart |-> c,
                notified |-> addNotification(<< >>, "stockCeiling", maxStock, "error")]
          ELSE [cart |-> updateQuantityUpdater(c, productId, newQuantity),
                notified |-> << >>]

\* what updateQuantity does to the cart and what it notifies
updateQuantityResult(c, productId, newQuantity) ==
  IF newQuantity <= 0
  THEN [cart |-> removeFromCartUpdater(c, productId), notified |-> << >>]
  ELSE IF ~ \E i \in 1..Len(products) : products[i].id = productId
  THEN [cart |-> c, notified |-> << >>]
  ELSE LET product == products[CHOOSE i \in 1..Len(products) : products[i].id = productId]
           maxStock == product.stock
       IN IF newQuantity > maxStock
          THEN [cart |-> c,
                notified |-> addNotification(<< >>, "stockCeiling", maxStock, "error")]
          ELSE [cart |-> updateQuantityUpdater(c, productId, newQuantity),
                notified |-> << >>]

updateQuantity(productId, newQuantity) ==
  /\ lastCall' = [NoCall EXCEPT !.op = "updateQuantity", !.id = productId,
                                 !.quantity = newQuantity, !.itemsBefore = Len(cart)]
  /\ LET r == updateQuantityResult(cart, productId, newQuantity) IN
     /\ cart' = r.cart
     /\ notifications' = r.notified
  /\ UNCHANGED <<coupons, selectedCoupon>>
  /\ useEffects

\* variant: a coupon already selected is kept, the new one is not taken
applyCouponResult_KeepsFirst(c, selected, coupon) ==
  LET currentTotal == calculateCartTotal(c, selected).totalAfterDiscount IN
  IF currentTotal < 10000 /\ coupon.discountType = "percentage"
  THEN [selectedCoupon |-> selected,
        notified |-> addNotification(<< >>, "percentageNeeds10000", 0, "error")]
  ELSE [selectedCoupon |-> IF selected # null THEN selected ELSE coupon,
        notified |-> addNotification(<< >>, "couponApplied", 0, "success")]

\* variant: a rejected coupon clears the selection
applyCouponResult_RejectClears(c, selected, coupon) ==
  LET currentTotal == calculateCartTotal(c, selected).totalAfterDiscount IN
  IF currentTotal < 10000 /\ coupon.discountType = "percentage"
  THEN [selectedCoupon |-> null,
        notified |-> addNotification(<< >>, "percentageNeeds10000", 0, "error")]
  ELSE [selectedCoupon |-> coupon,
        notified |-> addNotification(<< >>, "couponApplied", 0, "success")]

\* the coupon selected after applyCoupon(coupon), and what it notifies
applyCouponResult(c, selected, coupon) ==
  LET currentTotal == calculateCartTotal(c, selected).totalAfterDiscount IN
  IF currentTotal < 10000 /\ coupon.discountType = "percentage"
  THEN [selectedCoupon |-> selected,
        notified |-> addNotification(<< >>, "percentageNeeds10000", 0, "error")]
  ELSE [selectedCoupon |-> coupon,
        notified |-> addNotification(<< >>, "couponApplied", 0, "success")]

applyCoupon(coupon) ==
  /\ lastCall' = [NoCall EXCEPT !.op = "applyCoupon", !.coupon = coupon,
                                 !.selectedBefore = selectedCoupon,
                                 !.repeated = (lastCall.op = "applyCoupon" /\ lastCall.coupon = coupon)]
  /\ LET r == applyCouponResult(cart, selectedCoupon, coupon) IN
     /\ selectedCoupon' = r.selectedCoupon
     /\ notifications' = r.notified
  /\ UNCHANGED <<cart, coupons>>
  /\ useEffects

\* variant: the selected coupon survives the order
completeOrder_KeepsCoupon(now) ==
  /\ lastCall' = [NoCall EXCEPT !.op = "completeOrder", !.selectedBefore = selectedCoupon,
                                 !.itemsBefore = Len(cart)]
  /\ notifications' = addNotification(<< >>, "orderCompleted", now, "success")
  /\ cart' = << >>
  /\ UNCHANGED <<coupons, selectedCoupon>>
  /\ useEffects

completeOrder(now) ==
  /\ lastCall' = [NoCall EXCEPT !.op = "completeOrder", !.selectedBefore = selectedCoupon,
                                 !.itemsBefore = Len(cart)]
  /\ notifications' = addNotification(<< >>, "orderCompleted", now, "success")
  /\ cart' = << >>
  /\ selectedCoupon' = null
  /\ UNCHANGED coupons
  /\ useEffects

\* variant: the coupon is appended without looking for its code
addCoupon_NoDuplicateCheck(newCoupon) ==
  /\ lastCall' = [NoCall EXCEPT !.op = "addCoupon", !.coupon = newCoupon]
  /\ coupons' = Append(coupons, newCoupon)
  /\ notifications' = addNotification(<< >>, "couponAdded", 0, "success")
  /\ UNCHANGED <<cart, selectedCoupon>>
  /\ useEffects

addCoupon(newCoupon) ==
  /\ lastCall' = [NoCall EXCEPT !.op = "addCoupon", !.coupon = newCoupon]
  /\ IF \E i \in 1..Len(coupons) : coupons[i].code = newCoupon.code
     THEN /\ notifications' = addNotification(<< >>, "couponCodeExists", 0, "error")
          /\ coupons' = coupons
     ELSE /\ coupons' = Append(coupons, newCoupon)
          /\ notifications' = addNotification(<< >>, "couponAdded", 0, "success")
  /\ UNCHANGED <<cart, selectedCoupon>>
  /\ useEffects

\* variant: any selection is cleared
deleteCoupon_ClearsAlways(couponCode) ==
  /\ lastCall' = [NoCall EXCEPT !.op = "deleteCoupon", !.id = couponCode,
                                 !.selectedBefore = selectedCoupon]
  /\ coupons' = LET Keep(c) == c.code # couponCode IN SelectSeq(coupons, Keep)
  /\ selectedCoupon' = null
  /\ notifications' = addNotification(<< >>, "couponDeleted", 0, "success")
  /\ UNCHANGED cart
  /\ useEffects

\* variant: the selection is never cleared
deleteCoupon_KeepsSelection(couponCode) ==
  /\ lastCall' = [NoCall EXCEPT !.op = "deleteCoupon", !.id = couponCode,
                                 !.selectedBefore = selectedCoupon]
  /\ coupons' = LET Keep(c) == c.code # couponCode IN SelectSeq(coupons, Keep)
  /\ selectedCoupon' = selectedCoupon
  /\ notifications' = addNotification(<< >>, "couponDeleted", 0, "success")
  /\ UNCHANGED cart
  /\ useEffects

deleteCoupon(couponCode) ==
  /\ lastCall' = [NoCall EXCEPT !.op = "deleteCoupon", !.id = couponCode,
                                 !.selectedBefore = selectedCoupon]
  /\ coupons' = LET Keep(c) == c.code # couponCode IN SelectSeq(coupons, Keep)
  /\ selectedCoupon' = IF selectedCoupon # null /\ selectedCoupon.code = couponCode
                     THEN null ELSE selectedCoupon
  /\ notifications' = addNotification(<< >>, "couponDeleted", 0, "success")
  /\ UNCHANGED cart
  /\ useEffects

\* a new session: the App is constructed again over the stored data
restoreSession ==
  /\ lastCall' = [NoCall EXCEPT !.op = "restoreSession", !.itemsBefore = Len(cart)]
  /\ cart' = initialCart(localStorage)
  /\ coupons' = initialCouponsState(localStorage)
  /\ selectedCoupon' = null
  /\ notifications' = << >>
  /\ localStorage' = mountEffects(localStorage, cart', coupons')

(***************************************************************************)
(* Specification                                                           *)
(***************************************************************************)
Next ==
  \/ \E i \in 1..Len(products) : addToCart(products[i])
  \/ \E id \in ProductIds : removeFromCart(id)
  \/ \E id \in ProductIds, q \in -1..MaxNewQuantity : updateQuantity(id, q)
  \/ \E i \in 1..Len(coupons) : applyCoupon(coupons[i])
  \/ \E now \in 1..MaxClock : completeOrder(now)
  \/ \E c \in CouponForms : Len(coupons) < MaxCoupons /\ addCoupon(c)
  \/ \E code \in CouponCodes : deleteCoupon(code)
  \/ restoreSession

Spec == Init /\ [][Next]_vars

\* the handlers, with addToCart calls that share a render
NextBatched ==
  \/ Next
  \/ \E i \in 1..Len(products) : addToCartSameRender(products[i])

SpecBatched == Init /\ [][NextBatched]_vars

(***************************************************************************)
(* Properties                                                              *)
(***************************************************************************)
catalogProduct(id) == products[CHOOSE i \in 1..Len(products) : products[i].id = id]

OneNotification(message, arg, type) == << [message |-> message, arg |-> arg, type |-> type] >>

\* C1: every cart item has 1 <= quantity <= stock of its product, and the
\* remaining stock of every catalog product is never negative.
C1_QuantityWithinStock ==
  /\ \A i \in 1..Len(cart) :
        /\ 1 <= cart[i].quantity
        /\ cart[i].quantity <= cart[i].product.stock
  /\ \A k \in 1..Len(products) : getRemainingStock(products[k], cart) >= 0

\* updateQuantity has just set an item to exactly the stock of its product
C1_Witness ==
  /\ lastCall.op = "updateQuantity"
  /\ lastCall.id = "p2"
  /\ lastCall.quantity = catalogProduct("p2").stock
  /\ cartQuantity(cart, "p2") = catalogProduct("p2").stock
  /\ getRemainingStock(catalogProduct("p2"), cart) = 0

\* C2: the cart holds at most one item per product id.
C2_OneItemPerProduct ==
  \A i, j \in 1..Len(cart) : cart[i].product.id = cart[j].product.id => i = j

\* addToCart has just succeeded on a product that was already in the cart
C2_Witness ==
  /\ lastCall.op = "addToCart"
  /\ notifications = OneNotification("addedToCart", 0, "success")
  /\ cartQuantity(cart, lastCall.id) >= 2
  /\ Len(cart) = Len(products)

C4_CompleteOrderClears ==
  [][ lastCall'.op = "completeOrder"
      => /\ cart' = << >>
         /\ selectedCoupon' = null
         /\ coupons' = coupons
         /\ Len(notifications') = 1
         /\ notifications'[1].message = "orderCompleted"
         /\ notifications'[1].type = "success" ]_vars

\* an order of three items with a percentage coupon selected has just been
\* completed, with a registry the admin had changed
C4_Witness ==
  /\ lastCall.op = "completeOrder"
  /\ lastCall.itemsBefore = Len(products)
  /\ lastCall.selectedBefore.discountType = "percentage"
  /\ cart = << >>
  /\ selectedCoupon = null
  /\ coupons # initialCoupons
  /\ coupons # << >>

\* the cart total after the per-item discounts, no coupon applied
subtotalAfterItemDiscounts(c) == calculateCartTotal(c, null).totalAfterDiscount

\* C5: applyCoupon of a percentage coupon succeeds exactly when the subtotal
\* after per-item discounts, without the effect of the coupon selected so far,
\* is at least 10000, and otherwise notifies an error and keeps the selection;
\* applyCoupon of an amount coupon always succeeds.
C5_PercentageEligibility ==
  [][ lastCall'.op = "applyCoupon" =>
        LET coupon == lastCall'.coupon
            succeeded == /\ selectedCoupon' = coupon
                         /\ notifications' = OneNotification("couponApplied", 0, "success")
            rejected == /\ selectedCoupon' = selectedCoupon
                        /\ notifications' = OneNotification("percentageNeeds10000", 0, "error")
        IN IF coupon.discountType = "percentage"
           THEN IF subtotalAfterItemDiscounts(cart) >= 10000 THEN succeeded ELSE rejected
           ELSE succeeded ]_vars

\* the total after the per-item discounts with exactly one coupon applied
withOneCoupon(subtotal, coupon) ==
  IF coupon.discountType = "amount"
  THEN Max(0, subtotal - coupon.discountValue)
  ELSE MathRound(subtotal * (100 - coupon.discountValue), 100)

\* C6: after a successful applyCoupon the selected coupon is the coupon just
\* applied, and totalAfterDiscount is the per-item-discounted subtotal with
\* that one coupon applied, whatever coupon was selected before.
C6_CouponsReplace ==
  ( /\ lastCall.op = "applyCoupon"
    /\ notifications = OneNotification("couponApplied", 0, "success") )
  => /\ selectedCoupon = lastCall.coupon
     /\ calculateCartTotal(cart, selectedCoupon).totalAfterDiscount
          = withOneCoupon(subtotalAfterItemDiscounts(cart), lastCall.coupon)

\* a percentage coupon has just replaced the selected amount coupon
C6_Witness ==
  /\ lastCall.op = "applyCoupon"
  /\ notifications = OneNotification("couponApplied", 0, "success")
  /\ lastCall.selectedBefore.discountType = "amount"
  /\ lastCall.coupon.discountType = "percentage"
  /\ selectedCoupon = lastCall.coupon
  /\ subtotalAfterItemDiscounts(cart) = 18000
  /\ calculateCartTotal(cart, selectedCoupon).totalAfterDiscount = 16200

\* C7: an applyCoupon call that repeats the call made just before it leaves
\* the cart, the coupon registry and the selected coupon as they were.
C7_ApplyCouponIdempotent ==
  [][ ( /\ lastCall.op = "applyCoupon"
        /\ lastCall'.op = "applyCoupon"
        /\ lastCall'.coupon = lastCall.coupon )
      => /\ cart' = cart
         /\ coupons' = coupons
         /\ selectedCoupon' = selectedCoupon ]_vars

\* the second of two applyCoupon calls in a row was rejected although the
\* first had selected the coupon
C7_Witness ==
  /\ lastCall.op = "applyCoupon"
  /\ lastCall.repeated
  /\ notifications = OneNotification("percentageNeeds10000", 0, "error")
  /\ selectedCoupon = lastCall.coupon

\* C8: the rate getMaxApplicableDiscount returns for an item of the cart
\* never exceeds 0.5, with or without the bulk bonus.
C8_RateAtMostHalf ==
  \A i \in 1..Len(cart) : getMaxApplicableDiscount(cart[i], cart) <= 50

\* the cart with item i set to quantity q, the other items as they are
withQuantity(c, i, q) == [c EXCEPT ![i].quantity = q]

rateAt(c, i, q) == getMaxApplicableDiscount(withQuantity(c, i, q)[i], withQuantity(c, i, q))

\* C9: for every item of the cart, with the other items held fixed, the rate
\* at quantity q1 is at most the rate at quantity q2 whenever q1 <= q2.
C9_RateMonotoneInQuantity ==
  \A i \in 1..Len(cart) :
    \A q1, q2 \in 1..cart[i].product.stock :
      q1 <= q2 => rateAt(cart, i, q1) <= rateAt(cart, i, q2)

\* the largest rate among the tiers of the item whose threshold is reached
baseRate(item) ==
  LET rates == { item.product.discounts[k].rate :
                   k \in { n \in 1..Len(item.product.discounts) :
                             item.product.discounts[n].quantity <= item.quantity } }
  IN IF rates = {} THEN 0 ELSE CHOOSE r \in rates : \A o \in rates : o <= r

\* C10: the rate of an item is min(base + 0.05, 0.5) exactly when some item of
\* the cart has quantity >= 10 and base otherwise, and the item total is
\* round(price * quantity * (1 - rate)).
C10_BulkBonusCartWide ==
  \A i \in 1..Len(cart) :
    LET item == cart[i]
        bulk == \E j \in 1..Len(cart) : cart[j].quantity >= 10
        rate == IF bulk THEN Min(baseRate(item) + 5, 50) ELSE baseRate(item)
    IN /\ getMaxApplicableDiscount(item, cart) = rate
       /\ calculateItemTotal(item, cart)
            = MathRound(item.product.price * item.quantity * (100 - rate), 100)

\* an item below quantity 10 has the bonus because another item reached 10
C10_Witness ==
  \E i, j \in 1..Len(cart) :
    /\ cart[j].quantity >= 10
    /\ cart[i].quantity < 10
    /\ baseRate(cart[i]) = 10
    /\ getMaxApplicableDiscount(cart[i], cart) = 15
    /\ calculateItemTotal(cart[i], cart) = 1705

\* the cart without the items of the product, the others in their order
withoutProduct(c, id) ==
  LET others == { i \in 1..Len(c) : c[i].product.id # id }
      nth(k) == CHOOSE i \in others : Cardinality({ j \in others : j < i }) = k - 1
  IN [k \in 1..Cardinality(others) |-> c[nth(k)]]

\* C11: updateQuantity(id, newQuantity) with newQuantity <= 0 leaves the cart,
\* the selected coupon, the coupon registry and the notifications exactly as
\* removeFromCart(id) leaves them, also for an id absent from the cart or
\* from the catalog.
C11_NonPositiveQuantityRemoves ==
  [][ ( /\ lastCall'.op \in {"updateQuantity", "removeFromCart"}
        /\ lastCall'.quantity <= 0 )
      => /\ cart' = withoutProduct(cart, lastCall'.id)
         /\ notifications' = << >>
         /\ selectedCoupon' = selectedCoupon
         /\ coupons' = coupons ]_vars

\* updateQuantity(id, 0) has just removed one of three items, the others kept
\* their order
C11_Witness ==
  /\ lastCall.op = "updateQuantity"
  /\ lastCall.quantity = 0
  /\ lastCall.itemsBefore = 3
  /\ Len(cart) = 2
  /\ cart[1].product.id # "p3"
  /\ cart[2].product.id = "p3"
  /\ notifications = << >>

\* C12: a call of addToCart, updateQuantity, applyCoupon or addCoupon that
\* fails notifies exactly once, with severity error or warning and no
\* success, and leaves the cart, the coupon registry and the selected coupon
\* as they were.
C12_FailureNotifiesOnce ==
  [][ ( /\ lastCall'.op \in {"addToCart", "updateQuantity", "applyCoupon", "addCoupon"}
        /\ \E k \in 1..Len(notifications') :
              notifications'[k].type \in {"error", "warning"} )
      => /\ Len(notifications') = 1
         /\ \A k \in 1..Len(notifications') : notifications'[k].type # "success"
         /\ cart' = cart
         /\ coupons' = coupons
         /\ selectedCoupon' = selectedCoupon ]_vars

distinctCodes(registry) ==
  \A i, j \in 1..Len(registry) : registry[i].code = registry[j].code => i = j

\* C13: the codes of the coupon registry are pairwise distinct in every state;
\* addCoupon with a code the registry holds (exact match) notifies the
\* duplicate-code error and leaves the registry as it was, and otherwise
\* appends the coupon at the end and notifies success.
C13_CouponCodesDistinct ==
  /\ [] distinctCodes(coupons)
  /\ [][ lastCall'.op = "addCoupon" =>
           IF lastCall'.coupon.code \in { coupons[i].code : i \in 1..Len(coupons) }
           THEN /\ coupons' = coupons
                /\ notifications' = OneNotification("couponCodeExists", 0, "error")
           ELSE /\ coupons' = coupons \o << lastCall'.coupon >>
                /\ notifications' = OneNotification("couponAdded", 0, "success") ]_vars

\* a duplicate code has just been refused by a registry that holds two codes
\* differing in letter case only
C13_Witness ==
  /\ lastCall.op = "addCoupon"
  /\ notifications = OneNotification("couponCodeExists", 0, "error")
  /\ {"PERCENT10", "percent10"} \subseteq { coupons[i].code : i \in 1..Len(coupons) }
  /\ coupons[Len(coupons)].code = "percent10"

\* the registry without the coupons of the code, the others in their order
withoutCode(registry, code) ==
  LET others == { i \in 1..Len(registry) : registry[i].code # code }
      nth(k) == CHOOSE i \in others : Cardinality({ j \in others : j < i }) = k - 1
  IN [k \in 1..Cardinality(others) |-> registry[nth(k)]]

\* C14: deleteCoupon(code) removes every registry coupon of that code and
\* keeps the others in order, clears the selected coupon exactly when it has
\* that code, notifies success whether or not a coupon matched, and leaves the
\* cart as it was.
C14_DeleteCouponEffect ==
  [][ lastCall'.op = "deleteCoupon" =>
        /\ coupons' = withoutCode(coupons, lastCall'.id)
        /\ selectedCoupon' = IF selectedCoupon # null /\ selectedCoupon.code = lastCall'.id
                              THEN null ELSE selectedCoupon
        /\ notifications' = OneNotification("couponDeleted", 0, "success")
        /\ cart' = cart ]_vars

\* a code the registry does not hold has just been deleted while another
\* coupon was selected and the cart was not empty
C14_Witness ==
  /\ lastCall.op = "deleteCoupon"
  /\ lastCall.id \notin { coupons[i].code : i \in 1..Len(coupons) }
  /\ lastCall.selectedBefore # null
  /\ selectedCoupon = lastCall.selectedBefore
  /\ coupons = initialCoupons
  /\ cart # << >>
  /\ notifications = OneNotification("couponDeleted", 0, "success")

\* C17: the selected coupon is none or a coupon whose code the coupon
\* registry holds.
C17_SelectedCouponInRegistry ==
  selectedCoupon # null =>
    \E i \in 1..Len(coupons) : coupons[i].code = selectedCoupon.code

\* the selected coupon has just been deleted from the registry
C17_Witness ==
  /\ lastCall.op = "deleteCoupon"
  /\ lastCall.selectedBefore # null
  /\ lastCall.selectedBefore.code = lastCall.id
  /\ selectedCoupon = null
  /\ coupons # << >>

inCart(c, id) == \E i \in 1..Len(c) : c[i].product.id = id

inCatalog(id) == \E k \in 1..Len(products) : products[k].id = id

\* c2 is c with the quantity of the item of the product set to q, every item
\* at the position it had
onlyQuantityChanged(c, c2, id, q) ==
  /\ Len(c2) = Len(c)
  /\ \A i \in 1..Len(c) :
        /\ c2[i].product = c[i].product
        /\ c2[i].quantity = IF c[i].product.id = id THEN q ELSE c[i].quantity

\* C15: a successful addToCart of a product not in the cart appends it at the
\* end with quantity 1; a successful addToCart of a product in the cart and a
\* successful updateQuantity change the quantity of that item only and move
\* no item; updateQuantity with a positive quantity for a product unknown to
\* the catalog or absent from the cart changes nothing.
C15_CartOrderPreserved ==
  [][ /\ ( /\ lastCall'.op = "addToCart"
            /\ notifications' = OneNotification("addedToCart", 0, "success") )
          => IF inCart(cart, lastCall'.id)
             THEN onlyQuantityChanged(cart, cart', lastCall'.id,
                                      cartQuantity(cart, lastCall'.id) + 1)
             ELSE cart' = cart \o << [product |-> catalogProduct(lastCall'.id),
                                      quantity |-> 1] >>
      /\ ( /\ lastCall'.op = "updateQuantity"
            /\ lastCall'.quantity >= 1 )
          => IF /\ inCatalog(lastCall'.id)
                /\ inCart(cart, lastCall'.id)
                /\ lastCall'.quantity <= catalogProduct(lastCall'.id).stock
             THEN onlyQuantityChanged(cart, cart', lastCall'.id, lastCall'.quantity)
             ELSE cart' = cart ]_vars

\* updateQuantity has just set the quantity of the first of three items
C15_Witness ==
  /\ lastCall.op = "updateQuantity"
  /\ Len(cart) = 3
  /\ lastCall.id = cart[1].product.id
  /\ lastCall.quantity = 2
  /\ cart[1].quantity = 2
  /\ cart[3].product.id = "p3"

\* C16: after a handler and its effects, the stored "cart" item is absent
\* exactly when the cart is empty and otherwise is the serialization of the
\* cart, and a restored session starts with the cart of the session before.
C16_CartPersisted ==
  /\ [] ( /\ localStorage.cart.present <=> cart # << >>
          /\ cart # << >> => localStorage.cart.text = stringifyCart(cart)
          /\ initialCart(localStorage) = cart )
  /\ [][ lastCall'.op = "restoreSession" => cart' = cart ]_vars

\* a session has just been restored with the three items of the session before
C16_Witness ==
  /\ lastCall.op = "restoreSession"
  /\ lastCall.itemsBefore = 3
  /\ Len(cart) = 3
  /\ cartQuantity(cart, "p1") = 10
  /\ localStorage.cart.present

\* C18: the totals satisfy 0 <= totalAfterDiscount <= totalBeforeDiscount,
\* and both are 0 for an empty cart whatever coupon is selected.
C18_TotalsBounded ==
  LET totals == calculateCartTotal(cart, selectedCoupon) IN
  /\ 0 <= totals.totalAfterDiscount
  /\ totals.totalAfterDiscount <= totals.totalBeforeDiscount
  /\ cart = << >> => totals.totalBeforeDiscount = 0 /\ totals.totalAfterDiscount = 0

\* an amount coupon larger than the subtotal is selected on a cart with items
C18_Witness ==
  /\ cart # << >>
  /\ selectedCoupon.discountType = "amount"
  /\ subtotalAfterItemDiscounts(cart) < selectedCoupon.discountValue
  /\ calculateCartTotal(cart, selectedCoupon).totalAfterDiscount = 0
  /\ calculateCartTotal(cart, selectedCoupon).totalBeforeDiscount > 0

\* C19: addToCart, removeFromCart and updateQuantity change neither the
\* selected coupon nor the coupon registry, so a percentage coupon stays
\* selected when they bring the subtotal below 10000.
C19_CartHandlersKeepCoupon ==
  [][ lastCall'.op \in {"addToCart", "removeFromCart", "updateQuantity"}
      => /\ selectedCoupon' = selectedCoupon
         /\ coupons' = coupons ]_vars

\* removing an item has just left a cart below 10000 with a percentage coupon
\* still selected
C19_Witness ==
  /\ lastCall.op = "removeFromCart"
  /\ lastCall.itemsBefore = Len(cart) + 1
  /\ cart # << >>
  /\ selectedCoupon.discountType = "percentage"
  /\ subtotalAfterItemDiscounts(cart) < 10000

====
